---- MODULE Spec2Model ----
(***************************************************************************)
(* Model of the ControlNet extension: scripts/processor.py (annotator     *)
(* dispatch with process-wide detector slots, simple_scribble) and        *)
(* scripts/cldm.py (checkpoint reconciliation in the constructor of       *)
(* PlugableControlModel, hook / notify / restore, the hooked forward and  *)
(* the ControlNet forward).                                               *)
(*                                                                         *)
(* Four specifications share the variables; each one drives one part of   *)
(* the program and leaves the variables of the other parts at their       *)
(* initial values:                                                         *)
(*   SpecAnnotator  - the detector slots of processor.py                  *)
(*   SpecScribble   - simple_scribble applied repeatedly to an image      *)
(*   SpecCheckpoint - PlugableControlModel.__init__ on a checkpoint       *)
(*   SpecHook       - hook / notify / restore and the hooked forward      *)
(***************************************************************************)
EXTENDS Integers, Sequences, FiniteSets, TLC

VARIABLES
    \* ---- processor.py: module-level detector slots (lines 6, 25, 54, 73, 101, 129)
    model_canny, model_hed, model_mlsd, model_midas, model_openpose, model_uniformer,
    calls,              \* history: one record per call of a processor.py function
    \* ---- processor.py: simple_scribble
    images,             \* images[1] is the input, images[k+1] = simple_scribble(images[k])
    \* ---- cldm.py: PlugableControlModel.__init__
    ckpt,               \* state_dict returned by load_state_dict(model_path)
    base_model,         \* <<>> for None, <<d>> for a base model whose state_dict() is d
    opts_data,          \* shared.opts.data, a dict of host settings
    ctor_pc,            \* "start" before the constructor ran, "done" after
    ctor_error,         \* "none", "KeyError" (line 90) or "RuntimeError" (strict load, line 104)
    final_state_dict,   \* the state dict handed to control_model.load_state_dict (line 104)
    counter,            \* line 75 / 91
    \* ---- cldm.py: the host network (model) as hook / restore see it
    forward,            \* model.forward
    original_forward,   \* model._original_forward, Absent when the attribute does not exist
    host_blocks,        \* len(model.input_blocks) = len(model.output_blocks)
    hist,               \* history: one record per hook / restore call
    \* ---- cldm.py: the wrapper (outer)
    lowvram, weight, only_mid_control, hint_cond,
    control_blocks,     \* the ControlNet's configuration (channel_mult length, num_res_blocks)
    control_device,     \* where control_model lives: "cpu" or "device"
    cmd_opts_lowvram,   \* shared.cmd_opts.lowvram
    webui_on_gpu,       \* whether the host's other components are on the accelerator
    \* ---- cldm.py: one invocation of the hooked forward (forward2 / forward)
    pc, x_w, timesteps, flag_at_entry, only_mid, control, outs_returned, hs, dec_i,
    mid_added, injected, entered_control, exc, outcome

annVars == <<model_canny, model_hed, model_mlsd, model_midas, model_openpose,
             model_uniformer, calls>>
scrVars == <<images>>
ckptVars == <<ckpt, base_model, ctor_pc, ctor_error, final_state_dict, counter>>
netVars == <<forward, original_forward, host_blocks, hist>>
wrapVars == <<lowvram, weight, only_mid_control, hint_cond, control_blocks,
              control_device, cmd_opts_lowvram, webui_on_gpu>>
frameVars == <<pc, x_w, timesteps, flag_at_entry, only_mid, control, outs_returned, hs,
               dec_i, mid_added, injected, entered_control, exc, outcome>>
hookVars == <<netVars, wrapVars, frameVars>>
vars == <<annVars, scrVars, ckptVars, opts_data, hookVars>>

annIdleVars == <<scrVars, ckptVars, opts_data, hookVars>>
scrIdleVars == <<annVars, ckptVars, opts_data, hookVars>>
hookIdleVars == <<annVars, scrVars, ckptVars, opts_data>>

None == "None"

(***************************************************************************)
(* Python helpers                                                          *)
(***************************************************************************)
Abs(n) == IF n < 0 THEN -n ELSE n

Min(a, b) == IF a <= b THEN a ELSE b

\* dict.get(key, default)
DictGet(d, key, default) == IF key \in DOMAIN d THEN d[key] ELSE default

\* list.pop() on a non-empty list: the value returned and the list left
PopValue(s) == s[Len(s)]

PopRest(s) == SubSeq(s, 1, Len(s) - 1)

(***************************************************************************)
(* processor.py: the detector slots                                        *)
(***************************************************************************)
MaxCalls == 3

Slots == [canny |-> model_canny, hed |-> model_hed, mlsd |-> model_mlsd,
          midas |-> model_midas, openpose |-> model_openpose,
          uniformer |-> model_uniformer]

\* "if model_x is None: from annotator.x import apply_x; model_x = apply_x"
LazyLoad(slot, apply) == IF slot = None THEN apply ELSE slot

\* "if model_x is not None: from annotator.x import unload_x_model; unload_x_model()"
UnloadCallsAlways(slot) == TRUE

UnloadCalls(slot) == slot # None

\* The slot after unload_x(): the function declares the global but never assigns it.
SlotAfterUnload(slot) == slot

\* One history record: the function called, the slot it works on, whether it
\* took the import-and-assign branch, whether it invoked unload_x_model, and
\* the slots before and after.
Call(fn, slot, constructed, unloaded, before, after) ==
    [fn |-> fn, slot |-> slot, constructed |-> constructed, unloaded |-> unloaded,
     before |-> before, after |-> after]

InitAnnotator ==
    /\ model_canny = None /\ model_hed = None /\ model_mlsd = None
    /\ model_midas = None /\ model_openpose = None /\ model_uniformer = None
    /\ calls = <<>>

canny ==
    /\ Len(calls) < MaxCalls
    /\ UNCHANGED annIdleVars
    /\ model_canny' = LazyLoad(model_canny, "apply_canny")
    /\ UNCHANGED <<model_hed, model_mlsd, model_midas, model_openpose, model_uniformer>>
    /\ calls' = Append(calls, Call("canny", "canny", model_canny = None, FALSE, Slots, Slots'))

hed ==
    /\ Len(calls) < MaxCalls
    /\ UNCHANGED annIdleVars
    /\ model_hed' = LazyLoad(model_hed, "apply_hed")
    /\ UNCHANGED <<model_canny, model_mlsd, model_midas, model_openpose, model_uniformer>>
    /\ calls' = Append(calls, Call("hed", "hed", model_hed = None, FALSE, Slots, Slots'))

unload_hed ==
    /\ Len(calls) < MaxCalls
    /\ UNCHANGED annIdleVars
    /\ model_hed' = SlotAfterUnload(model_hed)
    /\ UNCHANGED <<model_canny, model_mlsd, model_midas, model_openpose, model_uniformer>>
    /\ calls' = Append(calls, Call("unload_hed", "hed", FALSE, UnloadCalls(model_hed),
                                   Slots, Slots'))

\* fake_scribble calls hed(img, res) first; the rest is image arithmetic
fake_scribble ==
    /\ Len(calls) < MaxCalls
    /\ UNCHANGED annIdleVars
    /\ model_hed' = LazyLoad(model_hed, "apply_hed")
    /\ UNCHANGED <<model_canny, model_mlsd, model_midas, model_openpose, model_uniformer>>
    /\ calls' = Append(calls, Call("fake_scribble", "hed", model_hed = None, FALSE,
                                   Slots, Slots'))

mlsd ==
    /\ Len(calls) < MaxCalls
    /\ UNCHANGED annIdleVars
    /\ model_mlsd' = LazyLoad(model_mlsd, "apply_mlsd")
    /\ UNCHANGED <<model_canny, model_hed, model_midas, model_openpose, model_uniformer>>
    /\ calls' = Append(calls, Call("mlsd", "mlsd", model_mlsd = None, FALSE, Slots, Slots'))

unload_mlsd ==
    /\ Len(calls) < MaxCalls
    /\ UNCHANGED annIdleVars
    /\ model_mlsd' = SlotAfterUnload(model_mlsd)
    /\ UNCHANGED <<model_canny, model_hed, model_midas, model_openpose, model_uniformer>>
    /\ calls' = Append(calls, Call("unload_mlsd", "mlsd", FALSE, UnloadCalls(model_mlsd),
                                   Slots, Slots'))

midas ==
    /\ Len(calls) < MaxCalls
    /\ UNCHANGED annIdleVars
    /\ model_midas' = LazyLoad(model_midas, "apply_midas")
    /\ UNCHANGED <<model_canny, model_hed, model_mlsd, model_openpose, model_uniformer>>
    /\ calls' = Append(calls, Call("midas", "midas", model_midas = None, FALSE, Slots, Slots'))

midas_normal ==
    /\ Len(calls) < MaxCalls
    /\ UNCHANGED annIdleVars
    /\ model_midas' = LazyLoad(model_midas, "apply_midas")
    /\ UNCHANGED <<model_canny, model_hed, model_mlsd, model_openpose, model_uniformer>>
    /\ calls' = Append(calls, Call("midas_normal", "midas", model_midas = None, FALSE,
                                   Slots, Slots'))

unload_midas ==
    /\ Len(calls) < MaxCalls
    /\ UNCHANGED annIdleVars
    /\ model_midas' = SlotAfterUnload(model_midas)
    /\ UNCHANGED <<model_canny, model_hed, model_mlsd, model_openpose, model_uniformer>>
    /\ calls' = Append(calls, Call("unload_midas", "midas", FALSE, UnloadCalls(model_midas),
                                   Slots, Slots'))

openpose ==
    /\ Len(calls) < MaxCalls
    /\ UNCHANGED annIdleVars
    /\ model_openpose' = LazyLoad(model_openpose, "apply_openpose")
    /\ UNCHANGED <<model_canny, model_hed, model_mlsd, model_midas, model_uniformer>>
    /\ calls' = Append(calls, Call("openpose", "openpose", model_openpose = None, FALSE,
                                   Slots, Slots'))

openpose_hand ==
    /\ Len(calls) < MaxCalls
    /\ UNCHANGED annIdleVars
    /\ model_openpose' = LazyLoad(model_openpose, "apply_openpose")
    /\ UNCHANGED <<model_canny, model_hed, model_mlsd, model_midas, model_uniformer>>
    /\ calls' = Append(calls, Call("openpose_hand", "openpose", model_openpose = None, FALSE,
                                   Slots, Slots'))

unload_openpose ==
    /\ Len(calls) < MaxCalls
    /\ UNCHANGED annIdleVars
    /\ model_openpose' = SlotAfterUnload(model_openpose)
    /\ UNCHANGED <<model_canny, model_hed, model_mlsd, model_midas, model_uniformer>>
    /\ calls' = Append(calls, Call("unload_openpose", "openpose", FALSE,
                                   UnloadCalls(model_openpose), Slots, Slots'))

uniformer ==
    /\ Len(calls) < MaxCalls
    /\ UNCHANGED annIdleVars
    /\ model_uniformer' = LazyLoad(model_uniformer, "apply_uniformer")
    /\ UNCHANGED <<model_canny, model_hed, model_mlsd, model_midas, model_openpose>>
    /\ calls' = Append(calls, Call("uniformer", "uniformer", model_uniformer = None, FALSE,
                                   Slots, Slots'))

unload_uniformer ==
    /\ Len(calls) < MaxCalls
    /\ UNCHANGED annIdleVars
    /\ model_uniformer' = SlotAfterUnload(model_uniformer)
    /\ UNCHANGED <<model_canny, model_hed, model_mlsd, model_midas, model_openpose>>
    /\ calls' = Append(calls, Call("unload_uniformer", "uniformer", FALSE,
                                   UnloadCalls(model_uniformer), Slots, Slots'))

NextAnnotator ==
    \/ canny
    \/ hed
    \/ unload_hed
    \/ fake_scribble
    \/ mlsd
    \/ unload_mlsd
    \/ midas
    \/ midas_normal
    \/ unload_midas
    \/ openpose
    \/ openpose_hand
    \/ unload_openpose
    \/ uniformer
    \/ unload_uniformer

(***************************************************************************)
(* processor.py: simple_scribble                                           *)
(***************************************************************************)
NPix == 2

MaxApply == 3

ScribbleThreshold == 127

ScribbleInk == 255

\* uint8 intensities that matter to the threshold: both extremes and both
\* sides of the threshold
Intensity == {0, ScribbleThreshold - 1, ScribbleThreshold, ScribbleInk}

\* An image is a sequence of NPix pixels, a pixel a sequence of channel values;
\* a gray image has one channel, a colour image three.
InputImages ==
    [1..NPix -> [1..3 -> Intensity]] \cup [1..NPix -> [1..1 -> Intensity]]

\* annotator.util.HWC3 on uint8 input: three channels are returned as they
\* are, one channel is replicated three times.
HWC3(img) ==
    [i \in 1..Len(img) |->
        IF Len(img[i]) = 3 THEN img[i] ELSE <<img[i][1], img[i][1], img[i][1]>>]

\* annotator.util.resize_image on an image that already has the target
\* resolution (the only images of this model): the same pixels.
resize_image(img) == img

\* np.min(img, axis=2) at one pixel
MinChannel(px) == CHOOSE v \in {px[c] : c \in 1..Len(px)} :
                      \A c \in 1..Len(px) : v <= px[c]

\* result = zeros_like(img); result[np.min(img, axis=2) < 127] = 255
simple_scribble_keep(img) ==
    LET im == resize_image(HWC3(img))
    IN  [i \in 1..Len(im) |->
            IF MinChannel(im[i]) < ScribbleThreshold
            THEN <<0, 0, 0>>
            ELSE <<ScribbleInk, ScribbleInk, ScribbleInk>>]

simple_scribble(img) ==
    LET im == resize_image(HWC3(img))
    IN  [i \in 1..Len(im) |->
            IF MinChannel(im[i]) < ScribbleThreshold
            THEN <<ScribbleInk, ScribbleInk, ScribbleInk>>
            ELSE <<0, 0, 0>>]

InitScribble == images \in {<<img>> : img \in InputImages}

\* one more call of simple_scribble, on the result of the previous one
ApplySimpleScribble ==
    /\ Len(images) <= MaxApply
    /\ UNCHANGED scrIdleVars
    /\ images' = Append(images, simple_scribble(images[Len(images)]))

NextScribble == ApplySimpleScribble

(***************************************************************************)
(* cldm.py: checkpoint reconciliation in PlugableControlModel.__init__     *)
(*                                                                         *)
(* A key is a sequence of tokens, each token a piece of the Python string. *)
(* The prefixes the code tests ("control_model.", "control_",              *)
(* "model.diffusion_model.") and the substring it replaces ("model.") are  *)
(* whole tokens, and no token contains part of another, so startswith,     *)
(* slicing by len() and str.replace on the strings are the same operations *)
(* on the token sequences.                                                 *)
(***************************************************************************)
MaxVal == 2

\* tensor values, one integer standing for a tensor
Vals == 1..MaxVal

TokenLen(tok) ==
    CASE tok = "control_" -> 8
      [] tok = "model." -> 6
      [] tok = "diffusion_" -> 10
      [] tok = "difference" -> 10
      [] OTHER -> 1

RECURSIVE StrLen(_)
\* len(s) of the Python string
StrLen(s) == IF s = <<>> THEN 0 ELSE TokenLen(Head(s)) + StrLen(Tail(s))

\* s.startswith(prefix)
startswith(s, prefix) ==
    Len(s) >= Len(prefix) /\ SubSeq(s, 1, Len(prefix)) = prefix

RECURSIVE replace(_, _)
\* s.replace(old, ""): every non-overlapping occurrence, left to right
replace(s, old) ==
    IF Len(s) < Len(old) THEN s
    ELSE IF SubSeq(s, 1, Len(old)) = old
         THEN replace(SubSeq(s, Len(old) + 1, Len(s)), old)
         ELSE <<Head(s)>> \o replace(Tail(s), old)

CONTROL_MODEL == <<"control_", "model.">>

DIFFUSION_MODEL == <<"model.", "diffusion_", "model.">>

DIFFERENCE == <<"difference">>

\* Parameter names of the ControlNet (and of the host UNet, which it mirrors):
\* the names nn.Module gives the attributes of lines 269-416 (time_embed,
\* input_blocks, zero_convs, input_hint_block, middle_block, middle_block_out);
\* none of them contains "model." or "control_".
ParamNames == {<<"w">>, <<"b">>}

\* the keys control_model.load_state_dict (strict) expects
ExpectedKeys == ParamNames

get_node_name(name, parent_name) ==
    IF StrLen(name) <= StrLen(parent_name) THEN <<FALSE, <<>>>>
    ELSE IF ~startswith(name, parent_name) THEN <<FALSE, <<>>>>
    ELSE <<TRUE, SubSeq(name, Len(parent_name) + 1, Len(name))>>

\* lines 81-82: the key looked up in the base model
key_name(key) ==
    LET r == get_node_name(key, <<"control_">>)
    IN  IF r[1] THEN replace(r[2], <<"model.">>) ELSE key

\* line 63
is_bundled(sd) == \E k \in DOMAIN sd : startswith(k, CONTROL_MODEL)

\* line 65
is_diff_model(sd) == DIFFERENCE \in DOMAIN sd

\* lines 66-67
transfer_ctrl_opt(sd, opts) ==
    /\ DictGet(opts, "control_net_control_transfer", FALSE)
    /\ \E k \in DOMAIN sd : startswith(k, DIFFUSION_MODEL)

\* line 90 raises KeyError when the checkpoint has no value under
\* "model.diffusion_model." + key_name
RaisesKeyError(sd, unet, key) ==
    /\ key_name(key) \in DOMAIN unet
    /\ ~is_diff_model(sd)
    /\ (DIFFUSION_MODEL \o key_name(key)) \notin DOMAIN sd

p_new_unchanged(sd, unet, key) == sd[key]

\* lines 80-93: the value stored for one "control_model." key
p_new(sd, unet, key) ==
    IF key_name(key) \in DOMAIN unet
    THEN IF is_diff_model(sd)
         THEN sd[key] + unet[key_name(key)]
         ELSE sd[key] + unet[key_name(key)] - sd[DIFFUSION_MODEL \o key_name(key)]
    ELSE sd[key]

ControlKeys(sd) == {k \in DOMAIN sd : startswith(k, CONTROL_MODEL)}

\* line 99: keep the "control_model." keys, with that substring removed
StripControlModel(sd) ==
    LET names == {replace(k, CONTROL_MODEL) : k \in ControlKeys(sd)}
    IN  [n \in names |->
            sd[CHOOSE k \in ControlKeys(sd) : replace(k, CONTROL_MODEL) = n]]

\* lines 63-102: [error, state_dict, counter]
Reconcile(sd, base, opts) ==
    IF ~is_bundled(sd)
    THEN [error |-> "none", state_dict |-> sd, counter |-> 0]
    ELSE IF (is_diff_model(sd) \/ transfer_ctrl_opt(sd, opts)) /\ base # <<>>
    THEN LET unet == base[1]
         IN  IF \E k \in ControlKeys(sd) : RaisesKeyError(sd, unet, k)
             THEN [error |-> "KeyError", state_dict |-> <<>>, counter |-> 0]
             ELSE [error |-> "none",
                   state_dict |-> StripControlModel(
                       [k \in ControlKeys(sd) |-> p_new(sd, unet, k)]),
                   counter |-> Cardinality(
                       {k \in ControlKeys(sd) : key_name(k) \in DOMAIN unet})]
    ELSE [error |-> "none", state_dict |-> StripControlModel(sd), counter |-> 0]

\* line 104: strict loading fails on any missing or unexpected key
StrictLoadFails(sd) == DOMAIN sd # ExpectedKeys

Prefixed(prefix, d) ==
    [k \in {prefix \o n : n \in DOMAIN d} |->
        d[CHOOSE n \in DOMAIN d : prefix \o n = k]]

ParamDicts == UNION {[S -> Vals] : S \in SUBSET ParamNames}

\* a checkpoint with no "control_model." key: nothing, or every parameter
BareDicts == {<<>>} \cup {[n \in ParamNames |-> v] : v \in Vals}

\* checkpoints: control-network values and base-model values for any subsets
\* of the parameter names, with or without bare keys and a "difference" key
Checkpoints ==
    {Prefixed(CONTROL_MODEL, c) @@ Prefixed(DIFFUSION_MODEL, m) @@ b @@ d :
        c \in ParamDicts, m \in ParamDicts, b \in BareDicts,
        d \in {<<>>, [k \in {DIFFERENCE} |-> 1]}}

InitCheckpoint ==
    /\ ckpt \in Checkpoints
    /\ base_model \in {<<>>} \cup {<<d>> : d \in ParamDicts}
    /\ ctor_pc = "start"
    /\ ctor_error = "none"
    /\ final_state_dict = <<>>
    /\ counter = 0

\* lines 111-112: where control_model is once the constructor returns; the
\* network is built and loaded on the cpu
DeviceAfterInit(lv) == IF lv THEN "cpu" ELSE "device"

\* PlugableControlModel(model_path, config_path, weight, lowvram, base_model);
\* the variable lowvram holds the argument, which line 105 stores.  When the
\* constructor raises, no wrapper exists and its fields stay as they were.
PlugableControlModel_init ==
    /\ ctor_pc = "start"
    /\ ctor_pc' = "done"
    /\ LET r == Reconcile(ckpt, base_model, opts_data)
           err == IF r.error # "none" THEN r.error
                  ELSE IF StrictLoadFails(r.state_dict) THEN "RuntimeError"
                  ELSE "none"
       IN  /\ counter' = r.counter
           /\ final_state_dict' = r.state_dict
           /\ ctor_error' = err
           /\ IF err = "none"
              THEN /\ weight' = 1
                   /\ only_mid_control' = FALSE
                   /\ hint_cond' = <<>>
                   /\ control_device' = DeviceAfterInit(lowvram)
              ELSE UNCHANGED <<weight, only_mid_control, hint_cond, control_device>>
    /\ UNCHANGED <<ckpt, base_model, lowvram>>
    /\ UNCHANGED <<control_blocks, cmd_opts_lowvram, webui_on_gpu>>
    /\ UNCHANGED <<annVars, scrVars, opts_data, netVars, frameVars>>

NextCheckpoint == PlugableControlModel_init

(***************************************************************************)
(* cldm.py: the ControlNet's blocks and its forward                        *)
(***************************************************************************)
MaxLevels == 2

MaxResBlocks == 1

\* len(channel_mult) and num_res_blocks (an int, the same at every level)
ControlConfigs == {[levels |-> l, num_res_blocks |-> r] :
                       l \in 1..MaxLevels, r \in 1..MaxResBlocks}

RECURSIVE LevelBlocks(_, _, _)
\* lines 306-376: the blocks appended for the levels level..levels; every
\* level appends num_res_blocks residual blocks and, unless it is the last
\* level, one downsampling block
LevelBlocks(level, levels, nr) ==
    IF level > levels THEN <<>>
    ELSE [i \in 1..nr |-> "ResBlock"]
         \o (IF level # levels THEN <<"Downsample">> ELSE <<>>)
         \o LevelBlocks(level + 1, levels, nr)

\* lines 275-281 and 348, 354
input_blocks(cfg) == <<"conv_nd">> \o LevelBlocks(1, cfg.levels, cfg.num_res_blocks)

\* lines 282, 349, 374: one zero convolution appended with every input block
zero_convs(cfg) == [i \in 1..Len(input_blocks(cfg)) |-> "zero_conv"]

ControlNet_forward_no_middle(cfg) ==
    [i \in 1..Min(Len(input_blocks(cfg)), Len(zero_convs(cfg))) |->
        [src |-> "zero_conv", idx |-> i]]

\* lines 436-454: outs, one entry per (module, zero_conv) pair in order, then
\* the middle block's
ControlNet_forward(cfg) ==
    [i \in 1..Min(Len(input_blocks(cfg)), Len(zero_convs(cfg))) |->
        [src |-> "zero_conv", idx |-> i]]
    \o <<[src |-> "middle_block_out", idx |-> 0]>>

(***************************************************************************)
(* cldm.py: hook, restore, notify                                          *)
(***************************************************************************)
MaxHist == 3

Absent == "absent"

HiresTolerance == 8

HintDownscale == 8

\* trailing dimension of hint_cond and of the latent x: equal after the
\* division, 8 apart, 9 apart, and with a remainder the division drops
HintWidths == {64, 135, 200}

LatentWidths == {8, 16, 17}

NotifyWeights == {1, 2}

\* the attributes of the host network other than forward / _original_forward
OtherAttrs == [input_blocks |-> host_blocks, output_blocks |-> host_blocks]

Snapshot(op, fwd, orig, fwd2, orig2, attrs, attrs2) ==
    [op |-> op, forward_before |-> fwd, original_before |-> orig,
     forward_after |-> fwd2, original_after |-> orig2,
     attrs_before |-> attrs, attrs_after |-> attrs2]

SavedForwardOfClass(fwd) == "UNetModel.forward"

\* line 166: model._original_forward = model.forward
SavedForward(fwd) == fwd

\* line 167: model.forward = forward2.__get__(model, UNetModel)
hook ==
    /\ pc = "idle"
    /\ Len(hist) < MaxHist
    /\ original_forward' = SavedForward(forward)
    /\ forward' = "forward2"
    /\ UNCHANGED host_blocks
    /\ hist' = Append(hist, Snapshot("hook", forward, original_forward,
                                     forward', original_forward', OtherAttrs, OtherAttrs'))
    /\ UNCHANGED <<wrapVars, frameVars>>
    /\ UNCHANGED hookIdleVars

RestoredForwardKeep(fwd, orig) == fwd

RestoredForwardUnguarded(fwd, orig) == orig

\* lines 175-179: model.forward after restore
RestoredForward(fwd, orig) == IF orig = Absent THEN fwd ELSE orig

restore ==
    /\ pc = "idle"
    /\ Len(hist) < MaxHist
    /\ forward' = RestoredForward(forward, original_forward)
    /\ original_forward' = Absent
    /\ UNCHANGED host_blocks
    /\ hist' = Append(hist, Snapshot("restore", forward, original_forward,
                                     forward', original_forward', OtherAttrs, OtherAttrs'))
    /\ UNCHANGED <<wrapVars, frameVars>>
    /\ UNCHANGED hookIdleVars

notify ==
    /\ pc = "idle"
    /\ \E h \in HintWidths, w \in NotifyWeights :
          /\ hint_cond' = <<h>>
          /\ weight' = w
    /\ UNCHANGED <<lowvram, only_mid_control, control_blocks, control_device,
                   cmd_opts_lowvram, webui_on_gpu>>
    /\ UNCHANGED <<netVars, frameVars>>
    /\ UNCHANGED hookIdleVars

\* only_mid_control is a plain attribute of the wrapper, False after
\* construction; the host configures it by assignment
set_only_mid_control ==
    /\ pc = "idle"
    /\ only_mid_control' = ~only_mid_control
    /\ UNCHANGED <<lowvram, weight, hint_cond, control_blocks, control_device,
                   cmd_opts_lowvram, webui_on_gpu>>
    /\ UNCHANGED <<netVars, frameVars>>
    /\ UNCHANGED hookIdleVars

(***************************************************************************)
(* cldm.py: one invocation of the hooked forward.  forward2 wraps forward  *)
(* in try / finally; forward runs the ControlNet, the host's encoder and   *)
(* middle block, and then the host's decoder block by block.               *)
(*   pc: "idle" -> "forward" -> "control" -> "encoder" -> "middle"         *)
(*       -> "decoder" -> "finally" -> "idle"; a raise goes to "finally".   *)
(***************************************************************************)
\* the locals of a finished (or not yet started) invocation
FrameDropped ==
    /\ x_w' = 0
    /\ timesteps' = None
    /\ only_mid' = FALSE
    /\ control' = <<>>
    /\ outs_returned' = <<>>
    /\ hs' = <<>>
    /\ dec_i' = 0
    /\ mid_added' = <<>>
    /\ injected' = <<>>
    /\ entered_control' = FALSE

Raise(e) ==
    /\ pc' = "finally"
    /\ exc' = e

\* line 160
DeviceAtEntry(lv, dev) == IF lv THEN "device" ELSE dev

\* lines 156-160: the host calls model.forward(x, timesteps, context)
forward2_try ==
    /\ pc = "idle"
    /\ forward = "forward2"
    /\ \E w \in LatentWidths, t \in {None, "t"} :
          /\ x_w' = w
          /\ timesteps' = t
    /\ webui_on_gpu' = IF cmd_opts_lowvram THEN FALSE ELSE webui_on_gpu
    /\ control_device' = DeviceAtEntry(lowvram, control_device)
    /\ flag_at_entry' = only_mid_control
    /\ pc' = "forward"
    /\ exc' = "none"
    /\ outcome' = "none"
    /\ UNCHANGED <<only_mid, control, outs_returned, hs, dec_i, mid_added, injected,
                   entered_control>>
    /\ UNCHANGED <<lowvram, weight, only_mid_control, hint_cond, control_blocks,
                   cmd_opts_lowvram>>
    /\ UNCHANGED netVars
    /\ UNCHANGED hookIdleVars

EffectiveOnlyMidNoFloor(flag, w, hint_w, opts) ==
    IF Abs(w * HintDownscale - hint_w) > HiresTolerance * HintDownscale
    THEN DictGet(opts, "control_net_only_midctrl_hires", TRUE)
    ELSE flag

\* lines 118-123
EffectiveOnlyMid(flag, w, hint_w, opts) ==
    IF Abs(w - (hint_w \div HintDownscale)) > HiresTolerance
    THEN DictGet(opts, "control_net_only_midctrl_hires", TRUE)
    ELSE flag

forward_hires_guarded ==
    /\ pc = "forward"
    /\ only_mid' = IF hint_cond = <<>> THEN only_mid_control
                   ELSE EffectiveOnlyMid(only_mid_control, x_w, hint_cond[1], opts_data)
    /\ pc' = "control"
    /\ UNCHANGED <<x_w, timesteps, flag_at_entry, control, outs_returned, hs, dec_i,
                   mid_added, injected, entered_control, exc, outcome>>
    /\ UNCHANGED <<netVars, wrapVars>>
    /\ UNCHANGED hookIdleVars

\* lines 118-125; outer.hint_cond.shape raises AttributeError on None
forward_hires ==
    /\ pc = "forward"
    /\ IF hint_cond = <<>>
       THEN /\ Raise("AttributeError")
            /\ UNCHANGED only_mid
       ELSE /\ only_mid' = EffectiveOnlyMid(only_mid_control, x_w, hint_cond[1], opts_data)
            /\ pc' = "control"
            /\ UNCHANGED exc
    /\ UNCHANGED <<x_w, timesteps, flag_at_entry, control, outs_returned, hs, dec_i,
                   mid_added, injected, entered_control, outcome>>
    /\ UNCHANGED <<netVars, wrapVars>>
    /\ UNCHANGED hookIdleVars

\* lines 127-128.  With timesteps None the call fails: inside the ControlNet
\* (timestep_embedding of None, line 430) or, should that library call let
\* None through, at the assertion of line 128.
forward_control ==
    /\ pc = "control"
    /\ entered_control' = TRUE
    /\ IF timesteps = None
       THEN /\ \E e \in {"TypeError", "AssertionError"} : Raise(e)
            /\ UNCHANGED <<control, outs_returned>>
       ELSE /\ control' = ControlNet_forward(control_blocks)
            /\ outs_returned' = control'
            /\ pc' = "encoder"
            /\ UNCHANGED exc
    /\ UNCHANGED <<x_w, timesteps, flag_at_entry, only_mid, hs, dec_i, mid_added,
                   injected, outcome>>
    /\ UNCHANGED <<netVars, wrapVars>>
    /\ UNCHANGED hookIdleVars

\* lines 129-138: hs gets one entry per input block of the host
forward_encoder ==
    /\ pc = "encoder"
    /\ hs' = [i \in 1..host_blocks |-> i]
    /\ pc' = "middle"
    /\ UNCHANGED <<x_w, timesteps, flag_at_entry, only_mid, control, outs_returned, dec_i,
                   mid_added, injected, entered_control, exc, outcome>>
    /\ UNCHANGED <<netVars, wrapVars>>
    /\ UNCHANGED hookIdleVars

\* line 140: h += control.pop()
forward_middle ==
    /\ pc = "middle"
    /\ IF control = <<>>
       THEN /\ Raise("IndexError")
            /\ UNCHANGED <<control, mid_added>>
       ELSE /\ mid_added' = <<PopValue(control)>>
            /\ control' = PopRest(control)
            /\ pc' = "decoder"
            /\ UNCHANGED exc
    /\ UNCHANGED <<x_w, timesteps, flag_at_entry, only_mid, outs_returned, hs, dec_i,
                   injected, entered_control, outcome>>
    /\ UNCHANGED <<netVars, wrapVars>>
    /\ UNCHANGED hookIdleVars

\* line 143: whether this decoder block pops the control stack
PopsControl(om) == ~om

\* lines 142-149: one output block of the host
forward_decoder ==
    /\ pc = "decoder"
    /\ dec_i < host_blocks
    /\ IF hs = <<>>
       THEN /\ Raise("IndexError")
            /\ UNCHANGED <<hs, control, injected, dec_i>>
       ELSE IF ~PopsControl(only_mid)
       THEN /\ hs' = PopRest(hs)
            /\ injected' = Append(injected, <<>>)
            /\ dec_i' = dec_i + 1
            /\ UNCHANGED <<control, pc, exc>>
       ELSE IF control = <<>>
       THEN /\ hs' = PopRest(hs)
            /\ Raise("IndexError")
            /\ UNCHANGED <<control, injected, dec_i>>
       ELSE /\ hs' = PopRest(hs)
            /\ control' = PopRest(control)
            /\ injected' = Append(injected, <<[control_input |-> PopValue(control),
                                               weight |-> weight]>>)
            /\ dec_i' = dec_i + 1
            /\ UNCHANGED <<pc, exc>>
    /\ UNCHANGED <<x_w, timesteps, flag_at_entry, only_mid, outs_returned, mid_added,
                   entered_control, outcome>>
    /\ UNCHANGED <<netVars, wrapVars>>
    /\ UNCHANGED hookIdleVars

\* lines 151-152: return self.out(h)
forward_return ==
    /\ pc = "decoder"
    /\ dec_i = host_blocks
    /\ pc' = "finally"
    /\ UNCHANGED <<x_w, timesteps, flag_at_entry, only_mid, control, outs_returned, hs,
                   dec_i, mid_added, injected, entered_control, exc, outcome>>
    /\ UNCHANGED <<netVars, wrapVars>>
    /\ UNCHANGED hookIdleVars

DeviceAfterCallNoFinally(lv, dev, e) == IF lv /\ e = "none" THEN "cpu" ELSE dev

\* lines 162-164
DeviceAfterCall(lv, dev, e) == IF lv THEN "cpu" ELSE dev

\* lines 162-164: the finally block, then the return or the raise of forward2
forward2_finally ==
    /\ pc = "finally"
    /\ control_device' = DeviceAfterCall(lowvram, control_device, exc)
    /\ outcome' = IF exc = "none" THEN "returned" ELSE "raised"
    /\ pc' = "idle"
    /\ FrameDropped
    /\ UNCHANGED <<flag_at_entry, exc>>
    /\ UNCHANGED <<lowvram, weight, only_mid_control, hint_cond, control_blocks,
                   cmd_opts_lowvram, webui_on_gpu>>
    /\ UNCHANGED netVars
    /\ UNCHANGED hookIdleVars

\* the state after PlugableControlModel(...) returned (lines 104-112) on a
\* host network nothing has hooked yet
InitHook ==
    /\ forward = "UNetModel.forward"
    /\ original_forward = Absent
    /\ control_blocks \in ControlConfigs
    /\ host_blocks = Len(input_blocks(control_blocks))
    /\ hist = <<>>
    /\ lowvram \in BOOLEAN
    /\ weight = 1
    /\ only_mid_control = FALSE
    /\ hint_cond = <<>>
    /\ control_device = DeviceAfterInit(lowvram)
    /\ cmd_opts_lowvram \in BOOLEAN
    /\ webui_on_gpu = TRUE
    /\ pc = "idle"
    /\ x_w = 0
    /\ timesteps = None
    /\ flag_at_entry = FALSE
    /\ only_mid = FALSE
    /\ control = <<>>
    /\ outs_returned = <<>>
    /\ hs = <<>>
    /\ dec_i = 0
    /\ mid_added = <<>>
    /\ injected = <<>>
    /\ entered_control = FALSE
    /\ exc = "none"
    /\ outcome = "none"

NextHook ==
    \/ hook
    \/ restore
    \/ notify
    \/ set_only_mid_control
    \/ forward2_try
    \/ forward_hires
    \/ forward_control
    \/ forward_encoder
    \/ forward_middle
    \/ forward_decoder
    \/ forward_return
    \/ forward2_finally

(***************************************************************************)
(* The four specifications                                                 *)
(***************************************************************************)
\* before any processor.py function ran
AnnotatorIdle ==
    /\ model_canny = None /\ model_hed = None /\ model_mlsd = None
    /\ model_midas = None /\ model_openpose = None /\ model_uniformer = None
    /\ calls = <<>>

ScribbleIdle == images = <<>>

CheckpointIdle ==
    /\ ckpt = <<>>
    /\ base_model = <<>>
    /\ ctor_pc = "done"
    /\ ctor_error = "none"
    /\ final_state_dict = <<>>
    /\ counter = 0

\* a wrapper and a host network nothing has been called on
HookIdle ==
    /\ forward = "UNetModel.forward"
    /\ original_forward = Absent
    /\ control_blocks = [levels |-> 1, num_res_blocks |-> 1]
    /\ host_blocks = Len(input_blocks(control_blocks))
    /\ hist = <<>>
    /\ weight = 1
    /\ only_mid_control = FALSE
    /\ hint_cond = <<>>
    /\ cmd_opts_lowvram = FALSE
    /\ webui_on_gpu = TRUE
    /\ pc = "idle"
    /\ x_w = 0
    /\ timesteps = None
    /\ flag_at_entry = FALSE
    /\ only_mid = FALSE
    /\ control = <<>>
    /\ outs_returned = <<>>
    /\ hs = <<>>
    /\ dec_i = 0
    /\ mid_added = <<>>
    /\ injected = <<>>
    /\ entered_control = FALSE
    /\ exc = "none"
    /\ outcome = "none"

InitSpecAnnotator ==
    /\ InitAnnotator /\ ScribbleIdle /\ CheckpointIdle /\ HookIdle
    /\ lowvram = FALSE /\ control_device = "device"
    /\ opts_data = <<>>

InitSpecScribble ==
    /\ InitScribble /\ AnnotatorIdle /\ CheckpointIdle /\ HookIdle
    /\ lowvram = FALSE /\ control_device = "device"
    /\ opts_data = <<>>

\* before the constructor runs: its lowvram argument is chosen, the control
\* network is not on the device yet
InitSpecCheckpoint ==
    /\ InitCheckpoint /\ AnnotatorIdle /\ ScribbleIdle /\ HookIdle
    /\ lowvram \in BOOLEAN /\ control_device = "cpu"
    /\ opts_data \in {<<>>} \cup [{"control_net_control_transfer"} -> BOOLEAN]

InitSpecHook ==
    /\ InitHook /\ AnnotatorIdle /\ ScribbleIdle /\ CheckpointIdle
    /\ opts_data \in {<<>>} \cup [{"control_net_only_midctrl_hires"} -> BOOLEAN]

SpecAnnotator == InitSpecAnnotator /\ [][NextAnnotator]_vars

SpecScribble == InitSpecScribble /\ [][NextScribble]_vars

SpecCheckpoint == InitSpecCheckpoint /\ [][NextCheckpoint]_vars

SpecHook == InitSpecHook /\ [][NextHook]_vars

(***************************************************************************)
(* Properties of hook and restore (SpecHook)                               *)
(***************************************************************************)
\* hist agrees with the attributes of the network
HistCurrent ==
    Len(hist) > 0 =>
        /\ forward = hist[Len(hist)].forward_after
        /\ original_forward = hist[Len(hist)].original_after

\* C1: hook on a network that has no _original_forward, followed by restore,
\* leaves model.forward the forward it had before hook was called and leaves
\* the network without an _original_forward attribute.
C1_HookRestoreReinstates ==
    /\ HistCurrent
    /\ \A i \in 1..(Len(hist) - 1) :
          (/\ hist[i].op = "hook"
           /\ hist[i].original_before = Absent
           /\ hist[i + 1].op = "restore")
          => /\ hist[i + 1].forward_after = hist[i].forward_before
             /\ hist[i + 1].original_after = Absent

C1_Witness ==
    /\ Len(hist) >= 2
    /\ hist[Len(hist) - 1].op = "hook"
    /\ hist[Len(hist) - 1].original_before = Absent
    /\ hist[Len(hist) - 1].forward_before = "UNetModel.forward"
    /\ hist[Len(hist)].op = "restore"
    /\ outcome = "returned"
    /\ forward = "UNetModel.forward"
    /\ original_forward = Absent

\* C9: restore on a network that has no _original_forward attribute changes
\* neither model.forward nor any other attribute, and does not create the
\* attribute; a second restore in a row is such a call.
C9_RestoreUnhookedNoOp ==
    /\ HistCurrent
    /\ forward # Absent
    /\ \A i \in 1..Len(hist) :
          (hist[i].op = "restore" /\ hist[i].original_before = Absent)
          => /\ hist[i].forward_after = hist[i].forward_before
             /\ hist[i].original_after = Absent
             /\ hist[i].attrs_after = hist[i].attrs_before

C9_Witness ==
    /\ Len(hist) >= 3
    /\ hist[Len(hist) - 2].op = "hook"
    /\ hist[Len(hist) - 1].op = "restore"
    /\ hist[Len(hist) - 1].original_before # Absent
    /\ hist[Len(hist)].op = "restore"
    /\ hist[Len(hist)].original_before = Absent
    /\ forward = "UNetModel.forward"

(***************************************************************************)
(* Properties of the hooked forward (SpecHook)                             *)
(***************************************************************************)
InControlled == pc \in {"control", "encoder", "middle", "decoder"}

Encoders == Len(input_blocks(control_blocks))

\* the list the ControlNet returned: one entry per encoder block, first to
\* last, then the middle block's
OutsWellFormed ==
    /\ Len(outs_returned) = Encoders + 1
    /\ \A i \in 1..Encoders : outs_returned[i] = [src |-> "zero_conv", idx |-> i]
    /\ outs_returned[Encoders + 1] = [src |-> "middle_block_out", idx |-> 0]

\* decoder block k (counted from 1) was given the control entry of encoder
\* block Encoders + 1 - k
InjectedInOrder ==
    \A k \in 1..Len(injected) :
        /\ injected[k] # <<>>
        /\ injected[k][1].control_input = outs_returned[Encoders + 1 - k]

\* C3 as stated: the returned list has Encoders + 1 entries in order; in
\* every hooked call the last one goes to the middle block, every decoder
\* block pops one, and the stack is empty exactly when the last decoder
\* block has run.
C3_StackExhaustedInEveryCall ==
    /\ pc \in {"encoder", "middle", "decoder"} => OutsWellFormed
    /\ exc # "IndexError"
    /\ pc = "decoder" =>
          /\ mid_added = <<outs_returned[Encoders + 1]>>
          /\ Len(control) = host_blocks - dec_i
          /\ InjectedInOrder
    /\ (pc = "finally" /\ exc = "none") => control = <<>>

\* C3 amended: as C3 for the calls whose effective only_mid_control is false;
\* when it is true only the last entry is popped (for the middle block), no
\* decoder block pops, and the Encoders other entries are left on the stack.
C3_StackExhaustedUnlessOnlyMid ==
    /\ pc \in {"encoder", "middle", "decoder"} => OutsWellFormed
    /\ exc # "IndexError"
    /\ pc = "decoder" =>
          /\ mid_added = <<outs_returned[Encoders + 1]>>
          /\ Len(injected) = dec_i
          /\ IF only_mid
             THEN /\ control = SubSeq(outs_returned, 1, Encoders)
                  /\ \A k \in 1..Len(injected) : injected[k] = <<>>
             ELSE /\ Len(control) = host_blocks - dec_i
                  /\ control = SubSeq(outs_returned, 1, Encoders - dec_i)
                  /\ InjectedInOrder
    /\ (pc = "finally" /\ exc = "none") =>
          /\ dec_i = host_blocks
          /\ IF only_mid THEN Len(control) = Encoders ELSE control = <<>>

C3_Witness ==
    /\ pc = "finally"
    /\ exc = "none"
    /\ ~only_mid
    /\ Encoders >= 2
    /\ dec_i = Encoders
    /\ Len(injected) = Encoders
    /\ mid_added = <<[src |-> "middle_block_out", idx |-> 0]>>
    /\ control = <<>>

\* C4: once the hook has determined it, the call's only_mid_control is the
\* host setting control_net_only_midctrl_hires (true when absent) if
\* |W - (H div 8)| > 8 and the wrapper's flag otherwise; the call leaves the
\* wrapper's flag as it was on entry.
C4_EffectiveOnlyMidControl ==
    /\ pc # "idle" => only_mid_control = flag_at_entry
    /\ InControlled =>
          LET H == hint_cond[1]
              far == (x_w - (H \div 8) > 8) \/ ((H \div 8) - x_w > 8)
              setting == IF "control_net_only_midctrl_hires" \in DOMAIN opts_data
                         THEN opts_data["control_net_only_midctrl_hires"]
                         ELSE TRUE
          IN  only_mid = IF far THEN setting ELSE flag_at_entry

C4_Witness ==
    /\ pc = "decoder"
    /\ Abs(x_w - (hint_cond[1] \div 8)) = 9
    /\ flag_at_entry
    /\ ~only_mid

\* C5: under the wrapper's lowvram policy the control network is on the
\* compute device while the inner forward runs and is on the cpu whenever no
\* hooked forward is running, whether the last one returned or raised.
C5_LowvramReleased ==
    lowvram =>
        /\ pc \in {"forward", "control", "encoder", "middle", "decoder"}
              => control_device = "device"
        /\ pc = "idle" => control_device = "cpu"

C5_Witness ==
    /\ lowvram
    /\ pc = "idle"
    /\ outcome = "raised"
    /\ exc = "TypeError"
    /\ control_device = "cpu"

(***************************************************************************)
(* Properties of the detector slots (SpecAnnotator)                        *)
(***************************************************************************)
IsUnload(c) ==
    c.fn \in {"unload_hed", "unload_mlsd", "unload_midas", "unload_openpose",
              "unload_uniformer"}

\* C2: in a sequence detect, unload, detect on one modality, the unload call
\* leaves the modality's slot at "no model loaded" and the second detect call
\* takes the import-and-assign branch again.
C2_UnloadResetsSlot ==
    \A i \in 1..(Len(calls) - 2) :
        (/\ ~IsUnload(calls[i])
         /\ IsUnload(calls[i + 1])
         /\ ~IsUnload(calls[i + 2])
         /\ calls[i + 1].slot = calls[i].slot
         /\ calls[i + 2].slot = calls[i].slot)
        => /\ calls[i + 1].after[calls[i].slot] = None
           /\ calls[i + 2].constructed

\* C10: an unload call made while its slot is "no model loaded" does not
\* invoke the detector's unload routine and leaves every slot as it was.
C10_UnloadBeforeLoadNoOp ==
    \A i \in 1..Len(calls) :
        (IsUnload(calls[i]) /\ calls[i].before[calls[i].slot] = None)
        => /\ ~calls[i].unloaded
           /\ calls[i].after = calls[i].before

C10_Witness ==
    /\ Len(calls) >= 2
    /\ calls[1].fn = "midas"
    /\ calls[2].fn = "unload_openpose"
    /\ ~calls[2].unloaded
    /\ model_midas = "apply_midas"
    /\ model_openpose = None

(***************************************************************************)
(* Properties of simple_scribble (SpecScribble)                            *)
(***************************************************************************)
IsBinaryColour(img) ==
    \A i \in 1..Len(img) :
        Len(img[i]) = 3 /\ \A c \in 1..3 : img[i][c] \in {0, 255}

Complement(img) ==
    [i \in 1..Len(img) |-> [c \in 1..3 |-> 255 - img[i][c]]]

\* C8 as stated: simple_scribble returns every 3-channel image with values
\* in {0, 255} unchanged, in particular its own results.
C8_Idempotent ==
    \A k \in 1..(Len(images) - 1) :
        IsBinaryColour(images[k]) => images[k + 1] = images[k]

\* C8 amended: simple_scribble maps each of its own results to the
\* complement of that result (0 and 255 exchanged at every pixel), so
\* applying it twice more returns the result.
C8_ComplementOnOwnOutput ==
    \A k \in 2..(Len(images) - 1) :
        /\ IsBinaryColour(images[k])
        /\ images[k + 1] = Complement(images[k])
        /\ images[k + 1] # images[k]
        /\ k + 2 <= Len(images) => images[k + 2] = images[k]

C8_Witness ==
    /\ Len(images) >= 4
    /\ images[2][1] = <<255, 255, 255>>
    /\ images[3][1] = <<0, 0, 0>>
    /\ images[4] = images[2]

(***************************************************************************)
(* Properties of checkpoint reconciliation (SpecCheckpoint)                *)
(***************************************************************************)
\* C6: with a "difference" key and a base model, every "control_model." key
\* is loaded under its name without the prefix, with the base model's value
\* of that name added when the base model has that name and unchanged when
\* it has not.
C6_DifferenceAddsBase ==
    (ctor_pc = "done" /\ DIFFERENCE \in DOMAIN ckpt /\ base_model # <<>>) =>
        /\ ctor_error # "KeyError"
        /\ \A n \in ParamNames :
              (CONTROL_MODEL \o n) \in DOMAIN ckpt =>
                  /\ n \in DOMAIN final_state_dict
                  /\ final_state_dict[n] =
                        IF n \in DOMAIN base_model[1]
                        THEN ckpt[CONTROL_MODEL \o n] + base_model[1][n]
                        ELSE ckpt[CONTROL_MODEL \o n]

C6_Witness ==
    /\ ctor_pc = "done"
    /\ ctor_error = "none"
    /\ DIFFERENCE \in DOMAIN ckpt
    /\ base_model # <<>>
    /\ DOMAIN base_model[1] = {<<"w">>}
    /\ final_state_dict = (<<"w">> :> 3) @@ (<<"b">> :> 2)
    /\ counter = 1

\* C7: without a "difference" key, with control_net_control_transfer set and
\* some "model.diffusion_model." key in the checkpoint, and with a base
\* model, reconciliation raises nothing and every "control_model." key whose
\* name the base model has is loaded as p + B_cur - B_ref.
C7_TransferCompletes ==
    (/\ ctor_pc = "done"
     /\ DIFFERENCE \notin DOMAIN ckpt
     /\ DictGet(opts_data, "control_net_control_transfer", FALSE)
     /\ \E n \in ParamNames : (DIFFUSION_MODEL \o n) \in DOMAIN ckpt
     /\ base_model # <<>>) =>
        /\ ctor_error # "KeyError"
        /\ \A n \in ParamNames :
              ((CONTROL_MODEL \o n) \in DOMAIN ckpt /\ n \in DOMAIN base_model[1]) =>
                  /\ n \in DOMAIN final_state_dict
                  /\ final_state_dict[n] =
                        ckpt[CONTROL_MODEL \o n] + base_model[1][n]
                        - ckpt[DIFFUSION_MODEL \o n]

(***************************************************************************)
(* Properties of repeated hook and of the unset hint (SpecHook)            *)
(***************************************************************************)
\* C11: a hook called right after another hook, with no restore in between,
\* saves the already patched forward as _original_forward; a restore that
\* follows reinstates that patched forward and deletes the saved reference,
\* which leaves a network without _original_forward whose forward is not
\* the original one.
C11_DoubleHookLosesOriginal ==
    /\ HistCurrent
    /\ \A i \in 1..(Len(hist) - 1) :
          (hist[i].op = "hook" /\ hist[i + 1].op = "hook") =>
              /\ hist[i + 1].forward_before = "forward2"
              /\ hist[i + 1].original_after = "forward2"
              /\ (i + 2 <= Len(hist) /\ hist[i + 2].op = "restore") =>
                    /\ hist[i + 2].forward_after = "forward2"
                    /\ hist[i + 2].original_after = Absent

C11_Witness ==
    /\ Len(hist) = 3
    /\ hist[1].op = "hook"
    /\ hist[1].forward_before = "UNetModel.forward"
    /\ hist[2].op = "hook"
    /\ hist[3].op = "restore"
    /\ original_forward = Absent
    /\ forward # "UNetModel.forward"

\* C12 as stated: a hooked forward invoked while hint_cond is unset ends in
\* an error, and the control network's forward was entered before it.
C12_FailsInsideControlNet ==
    (pc = "finally" /\ hint_cond = <<>>) => (exc # "none" /\ entered_control)

\* C12 amended: a hooked forward invoked while hint_cond is unset ends in an
\* error raised by the hook's own resolution test (AttributeError on
\* hint_cond.shape), before the control network's forward is entered: the
\* control network never runs with an unset hint and returns no list.
C12_FailsBeforeControlNet ==
    /\ (pc = "finally" /\ hint_cond = <<>>) =>
          /\ exc = "AttributeError"
          /\ ~entered_control
          /\ outs_returned = <<>>
    /\ InControlled => hint_cond # <<>>
    /\ (pc = "idle" /\ outcome = "returned") => hint_cond # <<>>

C12_Witness ==
    /\ pc = "finally"
    /\ hint_cond = <<>>
    /\ timesteps = "t"
    /\ exc = "AttributeError"
    /\ ~entered_control

====
